---- MODULE Spec2Model ----
(***************************************************************************)
(* Model of src/bake_sample.cpp: bake::sample_surface_random, the          *)
(* per-triangle sampler sample_triangle and the normal reconciliation      *)
(* faceforward.                                                            *)
(*                                                                         *)
(* Abstractions.                                                           *)
(*  - A triangle is given by the magnitude of cross(v1-v0, v2-v0), a       *)
(*    natural number; triangle_area is half of it.  double and float       *)
(*    values are exact rationals <<numerator, denominator>>.               *)
(*  - A sample_info slot keeps tri_idx, the Halton position `index` the    *)
(*    barycentric coordinates are computed from, and dA.                   *)
(*  - assert() is fatal in a build without NDEBUG and compiled out in a    *)
(*    build with it; both builds are modelled (ndebug).                    *)
(*  - Array indices are the source's (0-based): arrays are functions over  *)
(*    0 .. n-1.                                                            *)
(***************************************************************************)
EXTENDS Integers, Sequences, FiniteSets, TLC

VARIABLES
  mesh,                      \* Mesh: [num_triangles, cross, normals]
  min_samples_per_triangle,  \* argument of sample_surface_random
  num_samples,               \* ao_samples.num_samples
  ndebug,                    \* TRUE: built with NDEBUG, assert() expands to nothing
  pc,                        \* position in sample_surface_random
  sample_idx,                \* line 154
  tri_sample_counts,         \* line 155
  tri_areas,                 \* line 166
  mesh_area,                 \* line 167
  num_mesh_samples,          \* line 176
  tri_idx,                   \* loop variable of the current loop
  k,                         \* line 198
  sample_infos,              \* ao_samples.sample_infos
  counts_p2,                 \* tri_sample_counts as it was at line 187
  warned,                    \* faceforward's static int warned (line 55)
  cerr,                      \* number of warning lines written to std::cerr
  ff_call,                   \* the last direct faceforward call and what it did
  ff_calls,                  \* number of direct faceforward calls so far
  invocations                \* sample_surface_random invocations begun in this process

vars == << mesh, min_samples_per_triangle, num_samples, ndebug, pc, sample_idx,
           tri_sample_counts, tri_areas, mesh_area, num_mesh_samples, tri_idx, k,
           sample_infos, counts_p2, warned, cerr, ff_call, ff_calls, invocations >>

samplingVars == << mesh, min_samples_per_triangle, num_samples, ndebug, pc, sample_idx,
                   tri_sample_counts, tri_areas, mesh_area, num_mesh_samples, tri_idx, k,
                   sample_infos, counts_p2 >>

-----------------------------------------------------------------------------
(* Bounds of the model *)

MaxTriangles == 3

MaxCross == 2

MaxMinSamples == 2

MaxSamples == 7

MaxCalls == 3

MaxInvocations == 2

-----------------------------------------------------------------------------
(* Rational arithmetic standing for double *)

RECURSIVE GCD(_, _)
GCD(a, b) == IF b = 0 THEN a ELSE GCD(b, a % b)

Rat(n, d) == LET g == GCD(n, d) IN IF g = 0 THEN <<n, d>> ELSE <<n \div g, d \div g>>

RatAdd(a, b) == Rat(a[1] * b[2] + b[1] * a[2], a[2] * b[2])

RatMul(a, b) == Rat(a[1] * b[1], a[2] * b[2])

RatDiv(a, b) == Rat(a[1] * b[2], a[2] * b[1])

RatEq(a, b) == a[1] * b[2] = b[1] * a[2]

RatIsZero(a) == a[1] = 0

RatFloor(a) == a[1] \div a[2]

Min(a, b) == IF a < b THEN a ELSE b

Tris == 0 .. (mesh.num_triangles - 1)

Slots == 0 .. (num_samples - 1)

-----------------------------------------------------------------------------
(* Vectors: <<x, y, z>>; NaN3 is the vector normalize() makes of a zero vector *)

NaN3 == << >>

Components == {-1, 0, 1}

Vec3 == Components \X Components \X Components

Negate(v) == IF v = NaN3 THEN NaN3 ELSE << -v[1], -v[2], -v[3] >>

\* optix::dot( normal, geom_normal ) > 0.0f; a comparison with NaN is false
DotPositive(a, b) ==
  /\ a # NaN3
  /\ b # NaN3
  /\ a[1] * b[1] + a[2] * b[2] + a[3] * b[3] > 0

-----------------------------------------------------------------------------
(* faceforward, lines 52-61 *)

\* The value returned (lines 54 and 60)
FaceforwardReturn(normal, geom_normal) ==
  IF DotPositive(normal, geom_normal) THEN normal ELSE Negate(normal)

\* Faulty variant: line 58 left out
FaceforwardWarnedNeverSet(w, normal, geom_normal) == w

\* The latch after a call that found it at w: kept by the early return, set otherwise
FaceforwardWarned(w, normal, geom_normal) ==
  IF DotPositive(normal, geom_normal) THEN w ELSE 1

\* Warning lines on std::cerr after a call that found c lines and the latch at w
FaceforwardCerr(c, w, normal, geom_normal) ==
  IF DotPositive(normal, geom_normal) THEN c
  ELSE IF w = 0 THEN c + 1 ELSE c

-----------------------------------------------------------------------------
(* sample_triangle, lines 64-118 *)

\* line 75: normalize( cross( v1-v0, v2-v0 ) ); the triangles lie in the plane
\* z = 0 with counter-clockwise winding, a zero cross product normalizes to NaN
FaceNormal(t) == IF mesh.cross[t] = 0 THEN NaN3 ELSE <<0, 0, 1>>

\* lines 77-87: three faceforward calls when the mesh has vertex normals.  Every
\* tri_normal_indices entry of the model points at the mesh's one stored normal.
SampleTriangleWarned(w, t) ==
  IF mesh.normals = << >> THEN w
  ELSE LET n  == mesh.normals[1]
           g  == FaceNormal(t)
           w1 == FaceforwardWarned(w, n, g)
           w2 == FaceforwardWarned(w1, n, g)
       IN  FaceforwardWarned(w2, n, g)

SampleTriangleCerr(c, w, t) ==
  IF mesh.normals = << >> THEN c
  ELSE LET n  == mesh.normals[1]
           g  == FaceNormal(t)
           w1 == FaceforwardWarned(w, n, g)
           c1 == FaceforwardCerr(c, w, n, g)
           w2 == FaceforwardWarned(w1, n, g)
           c2 == FaceforwardCerr(c1, w1, n, g)
       IN  FaceforwardCerr(c2, w2, n, g)

\* Number of iterations of the loop of line 93
LoopCount(tri_sample_begin, tri_sample_end) ==
  IF tri_sample_end > tri_sample_begin THEN tri_sample_end - tri_sample_begin ELSE 0

\* The Halton position written to the slot at distance d from the first slot of
\* the call (lines 93, 100, 102: index runs from tri_sample_begin)
SlotIndex(tri_sample_begin, d) == tri_sample_begin + d

\* lines 93-117: the slots sample_idx .. sample_idx + count - 1 are written
SampleTriangleInfos(infos, t, tri_sample_begin, tri_sample_end, idx) ==
  [ i \in DOMAIN infos |->
      IF idx <= i /\ i < idx + LoopCount(tri_sample_begin, tri_sample_end)
      THEN [ infos[i] EXCEPT !.tri_idx = t,
                             !.index = SlotIndex(tri_sample_begin, i - idx) ]
      ELSE infos[i] ]

\* The call writes past the end of the caller's buffers
Overruns(tri_sample_begin, tri_sample_end) ==
  sample_idx + LoopCount(tri_sample_begin, tri_sample_end) > num_samples

\* The whole call: slots, running counter (by reference), latch and std::cerr
SampleTriangle(t, tri_sample_begin, tri_sample_end) ==
  /\ sample_infos' = SampleTriangleInfos(sample_infos, t, tri_sample_begin,
                                         tri_sample_end, sample_idx)
  /\ sample_idx' = sample_idx + LoopCount(tri_sample_begin, tri_sample_end)
  /\ warned' = SampleTriangleWarned(warned, t)
  /\ cerr' = SampleTriangleCerr(cerr, warned, t)

-----------------------------------------------------------------------------
(* triangle_area, lines 121-128 *)

triangle_area(cross) == Rat(cross, 2)

-----------------------------------------------------------------------------
(* bake::sample_surface_random, lines 131-217 *)

\* A slot of the caller's buffer that nothing wrote yet
Unwritten == [ tri_idx |-> -1, index |-> -1, dA |-> << >> ]

Zeros == [ t \in Tris |-> 0 ]

\* The precondition asserted at line 137
Precondition == num_samples >= mesh.num_triangles * min_samples_per_triangle

\* line 137 (lines 138-142 assert that the buffers exist: every mesh and buffer of
\* the model does), lines 154-155
Entry ==
  /\ pc = "entry"
  /\ IF ~ndebug /\ ~Precondition
     THEN /\ pc' = "abort"
          /\ UNCHANGED << sample_idx, tri_sample_counts, tri_idx >>
     ELSE /\ pc' = "phase1"
          /\ sample_idx' = 0
          /\ tri_sample_counts' = Zeros
          /\ tri_idx' = 0
  /\ UNCHANGED << mesh, min_samples_per_triangle, num_samples, ndebug, tri_areas,
                  mesh_area, num_mesh_samples, k, sample_infos, counts_p2, warned,
                  cerr, ff_call, ff_calls, invocations >>

\* line 162: the count of a triangle after Phase 1 gave it its minimum
Phase1Count(count) == count + min_samples_per_triangle

\* lines 158-163, one iteration.  Built with NDEBUG and called with too small a
\* buffer, sample_triangle writes past its end: undefined behaviour.
Phase1Step ==
  /\ pc = "phase1"
  /\ tri_idx < mesh.num_triangles
  /\ IF Overruns(0, min_samples_per_triangle)
     THEN /\ pc' = "ub"
          /\ UNCHANGED << sample_idx, tri_sample_counts, tri_idx, sample_infos,
                          warned, cerr >>
     ELSE /\ SampleTriangle(tri_idx, 0, min_samples_per_triangle)
          /\ tri_sample_counts' =
               [ tri_sample_counts EXCEPT ![tri_idx] = Phase1Count(@) ]
          /\ tri_idx' = tri_idx + 1
          /\ pc' = pc
  /\ UNCHANGED << mesh, min_samples_per_triangle, num_samples, ndebug, tri_areas,
                  mesh_area, num_mesh_samples, k, counts_p2, ff_call, ff_calls,
                  invocations >>

RECURSIVE SumAreas(_, _)
SumAreas(areas, n) ==
  IF n = 0 THEN Rat(0, 1) ELSE RatAdd(SumAreas(areas, n - 1), areas[n - 1])

\* lines 166-176: the areas, their sum and the budget of Phase 2
ComputeAreas ==
  /\ pc = "phase1"
  /\ tri_idx >= mesh.num_triangles
  /\ tri_areas' = [ t \in Tris |-> triangle_area(mesh.cross[t]) ]
  /\ mesh_area' = SumAreas(tri_areas', mesh.num_triangles)
  /\ num_mesh_samples' = num_samples - sample_idx
  /\ tri_idx' = 0
  /\ pc' = "phase2"
  /\ UNCHANGED << mesh, min_samples_per_triangle, num_samples, ndebug, sample_idx,
                  tri_sample_counts, k, sample_infos, counts_p2, warned, cerr,
                  ff_call, ff_calls, invocations >>

\* Faulty variant: the ratio of the areas truncated before the multiplication
Phase2QuotientIntegerDivision(budget, area, total) ==
  IF RatIsZero(total) THEN << 0, 0 >>
  ELSE Rat(budget * RatFloor(RatDiv(area, total)), 1)

\* line 179: num_mesh_samples * tri_areas[tri_idx] / mesh_area, in double
Phase2Quotient(budget, area, total) ==
  RatDiv(RatMul(Rat(budget, 1), area), total)

\* line 179: static_cast<size_t> of the quotient truncates; of NaN (0/0) or of an
\* infinity (x/0) it is undefined, any size_t may result (every value of
\* num_samples or more is cut to the same minimum at line 179)
CastToSizeT(q) == IF q[2] = 0 THEN 0 .. num_samples ELSE { RatFloor(q) }

\* The guard of the loops of lines 177 and 188
LoopGuard == tri_idx < mesh.num_triangles /\ sample_idx < num_samples

\* Faulty variant: Phase 2 restarts the triangle's sequence
Phase2BeginAtZero(count) == 0

\* line 181: where the Phase 2 call starts in the triangle's Halton sequence
Phase2Begin(count) == count

\* lines 177-184, one iteration
Phase2Step ==
  /\ pc = "phase2"
  /\ LoopGuard
  /\ \E cast \in CastToSizeT(Phase2Quotient(num_mesh_samples, tri_areas[tri_idx],
                                              mesh_area)) :
       LET n     == Min(num_samples - sample_idx, cast)
           begin == Phase2Begin(tri_sample_counts[tri_idx])
       IN  /\ SampleTriangle(tri_idx, begin, begin + n)
           /\ tri_sample_counts' = [ tri_sample_counts EXCEPT ![tri_idx] = @ + n ]
  /\ tri_idx' = tri_idx + 1
  /\ UNCHANGED << mesh, min_samples_per_triangle, num_samples, ndebug, pc, tri_areas,
                  mesh_area, num_mesh_samples, k, counts_p2, ff_call, ff_calls,
                  invocations >>

\* line 187, reached when the loop of line 177 ends
Phase3Entry ==
  /\ pc = "phase2"
  /\ ~LoopGuard
  /\ pc' = IF ~ndebug /\ ~(num_samples - sample_idx <= mesh.num_triangles)
           THEN "abort" ELSE "phase3"
  /\ tri_idx' = 0
  /\ counts_p2' = tri_sample_counts
  /\ UNCHANGED << mesh, min_samples_per_triangle, num_samples, ndebug, sample_idx,
                  tri_sample_counts, tri_areas, mesh_area, num_mesh_samples, k,
                  sample_infos, warned, cerr, ff_call, ff_calls, invocations >>

\* Faulty variant: = written for += at line 193
Phase3CountAssigned(count) == 1

\* line 193: the count of a triangle after Phase 3 gave it a sample
Phase3Count(count) == count + 1

\* Faulty variant: Phase 3 walks the triangles from the last one down
Phase3TriangleDescending(i) == mesh.num_triangles - 1 - i

\* line 188: the triangle the iteration i of Phase 3 gives a sample to
Phase3Triangle(i) == i

\* lines 188-194, one iteration
Phase3Step ==
  /\ pc = "phase3"
  /\ LoopGuard
  /\ LET t == Phase3Triangle(tri_idx)
     IN  /\ SampleTriangle(t, tri_sample_counts[t], tri_sample_counts[t] + 1)
         /\ tri_sample_counts' = [ tri_sample_counts EXCEPT ![t] = Phase3Count(@) ]
  /\ tri_idx' = tri_idx + 1
  /\ UNCHANGED << mesh, min_samples_per_triangle, num_samples, ndebug, pc, tri_areas,
                  mesh_area, num_mesh_samples, k, counts_p2, ff_call, ff_calls,
                  invocations >>

\* lines 197-198, reached when the loop of line 188 ends
Phase4Entry ==
  /\ pc = "phase3"
  /\ ~LoopGuard
  /\ pc' = "phase4"
  /\ tri_idx' = 0
  /\ k' = 0
  /\ UNCHANGED << mesh, min_samples_per_triangle, num_samples, ndebug, sample_idx,
                  tri_sample_counts, tri_areas, mesh_area, num_mesh_samples,
                  sample_infos, counts_p2, warned, cerr, ff_call, ff_calls,
                  invocations >>

\* line 201 (the cast to float is exact in the model)
DifferentialArea(area, count) == RatDiv(area, Rat(count, 1))

\* lines 202-204: the next count slots from k on are stamped
StampInfos(infos, from, count, dA) ==
  [ i \in DOMAIN infos |->
      IF from <= i /\ i < from + count THEN [ infos[i] EXCEPT !.dA = dA ]
      ELSE infos[i] ]

\* lines 199-205, one iteration
Phase4Step ==
  /\ pc = "phase4"
  /\ tri_idx < mesh.num_triangles
  /\ IF ~ndebug /\ ~(tri_sample_counts[tri_idx] > 0)
     THEN /\ pc' = "abort"
          /\ UNCHANGED << tri_idx, k, sample_infos >>
     ELSE /\ sample_infos' =
               StampInfos(sample_infos, k, tri_sample_counts[tri_idx],
                          DifferentialArea(tri_areas[tri_idx],
                                           tri_sample_counts[tri_idx]))
          /\ k' = k + tri_sample_counts[tri_idx]
          /\ tri_idx' = tri_idx + 1
          /\ pc' = pc
  /\ UNCHANGED << mesh, min_samples_per_triangle, num_samples, ndebug, sample_idx,
                  tri_sample_counts, tri_areas, mesh_area, num_mesh_samples,
                  counts_p2, warned, cerr, ff_call, ff_calls, invocations >>

\* line 208 and the return
FinalAssert ==
  /\ pc = "phase4"
  /\ tri_idx >= mesh.num_triangles
  /\ pc' = IF ~ndebug /\ ~(sample_idx = num_samples) THEN "abort" ELSE "done"
  /\ UNCHANGED << mesh, min_samples_per_triangle, num_samples, ndebug, sample_idx,
                  tri_sample_counts, tri_areas, mesh_area, num_mesh_samples, tri_idx,
                  k, sample_infos, counts_p2, warned, cerr, ff_call, ff_calls,
                  invocations >>

-----------------------------------------------------------------------------
(* One invocation of sample_surface_random on every mesh, budget and build *)

\* mesh.normals: absent, or one stored normal every normal index points at
MeshNormals == { << >>, << <<0, 0, 1>> >>, << <<0, 0, -1>> >>, << <<1, 0, 0>> >> }

Meshes ==
  UNION { [ num_triangles : {n}, cross : [ 0 .. (n - 1) -> 0 .. MaxCross ],
            normals : MeshNormals ] : n \in 0 .. MaxTriangles }

NoCall == [ normal |-> <<0, 0, 0>>, geom_normal |-> <<0, 0, 0>>, result |-> <<0, 0, 0>>,
            warned_before |-> 0, cerr_before |-> 0 ]

Init ==
  /\ mesh \in Meshes
  /\ min_samples_per_triangle \in 0 .. MaxMinSamples
  /\ num_samples \in 0 .. MaxSamples
  /\ ndebug \in BOOLEAN
  /\ pc = "entry"
  /\ sample_idx = 0
  /\ tri_sample_counts = Zeros
  /\ tri_areas = [ t \in Tris |-> Rat(0, 1) ]
  /\ mesh_area = Rat(0, 1)
  /\ num_mesh_samples = 0
  /\ tri_idx = 0
  /\ k = 0
  /\ sample_infos = [ i \in Slots |-> Unwritten ]
  /\ counts_p2 = Zeros
  /\ warned = 0
  /\ cerr = 0
  /\ ff_call = NoCall
  /\ ff_calls = 0
  /\ invocations = 1

Next ==
  \/ Entry
  \/ Phase1Step
  \/ ComputeAreas
  \/ Phase2Step
  \/ Phase3Entry
  \/ Phase3Step
  \/ Phase4Entry
  \/ Phase4Step
  \/ FinalAssert

Spec == Init /\ [][Next]_vars

-----------------------------------------------------------------------------
(* Any sequence of faceforward calls in one process, over any number of     *)
(* sample_surface_random invocations                                        *)

GeomNormals == Vec3 \cup { NaN3 }

\* One call of faceforward, lines 52-61
Faceforward ==
  /\ invocations >= 1
  /\ ff_calls < MaxCalls
  /\ \E normal \in Vec3, geom_normal \in GeomNormals :
       /\ ff_call' = [ normal |-> normal, geom_normal |-> geom_normal,
                       result |-> FaceforwardReturn(normal, geom_normal),
                       warned_before |-> warned, cerr_before |-> cerr ]
       /\ warned' = FaceforwardWarned(warned, normal, geom_normal)
       /\ cerr' = FaceforwardCerr(cerr, warned, normal, geom_normal)
  /\ ff_calls' = ff_calls + 1
  /\ UNCHANGED << invocations, samplingVars >>

\* sample_surface_random is entered (again): its locals are fresh (lines 154-155),
\* the function-local static of faceforward is not touched
Invoke ==
  /\ invocations < MaxInvocations
  /\ invocations' = invocations + 1
  /\ sample_idx' = 0
  /\ UNCHANGED << mesh, min_samples_per_triangle, num_samples, ndebug, pc,
                  tri_sample_counts, tri_areas, mesh_area, num_mesh_samples, tri_idx,
                  k, sample_infos, counts_p2, warned, cerr, ff_call, ff_calls >>

InitFF ==
  /\ mesh = [ num_triangles |-> 0, cross |-> << >>, normals |-> << >> ]
  /\ min_samples_per_triangle = 0
  /\ num_samples = 0
  /\ ndebug = FALSE
  /\ pc = "calls"
  /\ sample_idx = 0
  /\ tri_sample_counts = << >>
  /\ tri_areas = << >>
  /\ mesh_area = Rat(0, 1)
  /\ num_mesh_samples = 0
  /\ tri_idx = 0
  /\ k = 0
  /\ sample_infos = << >>
  /\ counts_p2 = << >>
  /\ warned = 0
  /\ cerr = 0
  /\ ff_call = NoCall
  /\ ff_calls = 0
  /\ invocations = 0

NextFF == Faceforward \/ Invoke

SpecFF == InitFF /\ [][NextFF]_vars

-----------------------------------------------------------------------------
(* Quantities the properties speak of *)

RECURSIVE SumCounts(_, _)
SumCounts(counts, n) == IF n = 0 THEN 0 ELSE SumCounts(counts, n - 1) + counts[n - 1]

\* Sum of the dA of the slots 0 .. n-1, every one of them stamped
RECURSIVE SumDA(_, _)
SumDA(infos, n) ==
  IF n = 0 THEN Rat(0, 1) ELSE RatAdd(SumDA(infos, n - 1), infos[n - 1].dA)

AllStamped == \A i \in Slots : sample_infos[i].dA # << >>

AllWritten == \A i \in Slots : sample_infos[i].tri_idx \in Tris

\* Samples left unplaced when Phase 2 ended
LeftOver == num_samples - SumCounts(counts_p2, mesh.num_triangles)

SlotsOf(t) == { i \in Slots : sample_infos[i].tri_idx = t }

-----------------------------------------------------------------------------
(* C1: a run on a mesh of at least one triangle, with                       *)
(* min_samples_per_triangle >= 1 and a budget of at least                   *)
(* num_triangles * min_samples_per_triangle, ends with the per-triangle     *)
(* counts summing to num_samples and with sample_idx = num_samples.         *)
C1_ExactBudget ==
  ( pc = "done" /\ mesh.num_triangles >= 1 /\ min_samples_per_triangle >= 1
      /\ Precondition )
    => /\ SumCounts(tri_sample_counts, mesh.num_triangles) = num_samples
       /\ sample_idx = num_samples

(* C2: after a run that wrote every slot, the dA of every slot is the area  *)
(* of the triangle recorded in that slot divided by that triangle's count.  *)
C2_DAOfOwnTriangle ==
  ( pc = "done" /\ sample_idx = num_samples )
    => \A i \in Slots :
         /\ sample_infos[i].tri_idx \in Tris
         /\ sample_infos[i].dA # << >>
         /\ RatEq(sample_infos[i].dA,
                  DifferentialArea(tri_areas[sample_infos[i].tri_idx],
                                   tri_sample_counts[sample_infos[i].tri_idx]))

(* C3: once Phases 1-3 are over every triangle has at least                 *)
(* min_samples_per_triangle samples, and no step ever lowers a count.       *)
C3_MinimumKept ==
  /\ [] ( pc \in { "phase4", "done" }
            => \A t \in Tris : tri_sample_counts[t] >= min_samples_per_triangle )
  /\ [][ \A t \in Tris : tri_sample_counts'[t] >= tri_sample_counts[t] ]_vars

C3_Witness ==
  /\ pc = "done"
  /\ min_samples_per_triangle >= 1
  /\ \E t \in Tris : tri_sample_counts[t] = min_samples_per_triangle
  /\ \E t \in Tris : tri_sample_counts[t] > counts_p2[t]
                       /\ counts_p2[t] > min_samples_per_triangle

(* C4: in a build whose assertions are live, a run either aborts with no    *)
(* slot written or completes with every slot written.                       *)
C4_NoPartialFailure ==
  ~ndebug
    => /\ pc = "abort" => \A i \in Slots : sample_infos[i] = Unwritten
       /\ pc = "done" => AllWritten

(* C5: with min_samples_per_triangle >= 1 and the budget precondition, the  *)
(* divisor mesh_area of line 179 and the divisor tri_sample_counts[tri_idx] *)
(* of line 201 are nonzero whenever the division is about to be evaluated.  *)
C5_NoDivisionByZero ==
  ( min_samples_per_triangle >= 1 /\ Precondition )
    => /\ ( pc = "phase2" /\ LoopGuard ) => ~RatIsZero(mesh_area)
       /\ ( pc = "phase4" /\ tri_idx < mesh.num_triangles )
            => tri_sample_counts[tri_idx] # 0

(* C6: after a run within the preconditions, every slot carries a dA and    *)
(* the dA of all num_samples slots sum to the sum of the triangle areas.    *)
C6_AreaReconstructed ==
  ( pc = "done" /\ mesh.num_triangles >= 1 /\ min_samples_per_triangle >= 1
      /\ Precondition )
    => /\ AllStamped
       /\ RatEq(SumDA(sample_infos, num_samples), mesh_area)

(* C7: when Phase 2 ends on a mesh of positive area and a budget within the *)
(* precondition, at most num_triangles samples are unplaced: the assertion  *)
(* of line 187 holds.                                                       *)
C7_RemainderBounded ==
  ( pc = "phase2" /\ ~LoopGuard /\ Precondition /\ ~RatIsZero(mesh_area) )
    => num_samples - sample_idx <= mesh.num_triangles

C7_Witness ==
  /\ pc = "phase2"
  /\ ~LoopGuard
  /\ Precondition
  /\ ~RatIsZero(mesh_area)
  /\ mesh.num_triangles >= 2
  /\ sample_idx > mesh.num_triangles * min_samples_per_triangle
  /\ num_samples - sample_idx >= 1

(* C8: Phase 3, with r samples left by Phase 2, gives exactly the triangles *)
(* 0 .. r-1 one more sample each, in ascending order of the output slots,   *)
(* and the triangles from r on none.                                        *)
C8_RemainderInIndexOrder ==
  /\ pc = "phase3" =>
       \A t \in Tris :
         tri_sample_counts[t] - counts_p2[t] =
           IF t < tri_idx /\ t < LeftOver THEN 1 ELSE 0
  /\ pc \in { "phase4", "done" } =>
       /\ \A t \in Tris :
            tri_sample_counts[t] - counts_p2[t] = IF t < LeftOver THEN 1 ELSE 0
       /\ \A t \in Tris :
            t < LeftOver =>
              /\ sample_infos[num_samples - LeftOver + t].tri_idx = t
              /\ sample_infos[num_samples - LeftOver + t].index = counts_p2[t]

C8_Witness ==
  /\ pc = "done"
  /\ LeftOver >= 2
  /\ LeftOver < mesh.num_triangles
  /\ tri_sample_counts[0] = counts_p2[0] + 1
  /\ tri_sample_counts[mesh.num_triangles - 1] = counts_p2[mesh.num_triangles - 1]

(* C9: over any sequence of faceforward calls the warning is written at     *)
(* most once, at the first call whose dot product is not > 0; the latch     *)
(* starts at 0, is set by that call and never reset; every call returns the *)
(* normal when the dot product is > 0 and its negation otherwise.           *)
C9_WarnedOnce ==
  /\ warned \in { 0, 1 }
  /\ cerr = warned
  /\ ff_calls = 0 => warned = 0
  /\ ff_calls > 0 =>
       IF DotPositive(ff_call.normal, ff_call.geom_normal)
       THEN /\ ff_call.result = ff_call.normal
            /\ warned = ff_call.warned_before
            /\ cerr = ff_call.cerr_before
       ELSE /\ ff_call.result = Negate(ff_call.normal)
            /\ warned = 1
            /\ cerr = ff_call.cerr_before + ( IF ff_call.warned_before = 0 THEN 1 ELSE 0 )

C9_Witness ==
  /\ ff_calls >= 2
  /\ invocations >= 2
  /\ ff_call.warned_before = 1
  /\ ~DotPositive(ff_call.normal, ff_call.geom_normal)
  /\ ff_call.result = Negate(ff_call.normal)
  /\ ff_call.result # ff_call.normal
  /\ cerr = 1

(* C10: the Halton positions used for a triangle are exactly                *)
(* 0 .. count-1, each in exactly one output slot, so the number of slots    *)
(* that record the triangle equals its count.                               *)
C10_PositionsContiguous ==
  pc \in { "phase1", "phase2", "phase3", "phase4", "done" } =>
    \A t \in Tris :
      /\ { sample_infos[i].index : i \in SlotsOf(t) } = 0 .. (tri_sample_counts[t] - 1)
      /\ Cardinality(SlotsOf(t)) = tri_sample_counts[t]

C10_Witness ==
  /\ pc = "done"
  /\ min_samples_per_triangle >= 1
  /\ \E t \in Tris :
       /\ counts_p2[t] > min_samples_per_triangle
       /\ tri_sample_counts[t] > counts_p2[t]
       /\ Cardinality(SlotsOf(t)) = tri_sample_counts[t]

====
